---- MODULE Spec2Model ----
(***************************************************************************)
(* Model of nornir_nautobot/plugins/tasks/dispatcher/default.py:           *)
(* the NautobotNornirDriver (NAPALM) and NetmikoNautobotNornirDriver       *)
(* (Netmiko) tasks and the two line sanitizers _remove_lines and           *)
(* _substitute_lines.                                                      *)
(*                                                                         *)
(* Texts are TLA+ strings; a character is a string of length 1.  A regular *)
(* expression is kept in parsed form, as a sequence of tokens, and matched *)
(* the way Python's backtracking engine matches it (leftmost, greedy,      *)
(* first alternative that succeeds).                                       *)
(***************************************************************************)
EXTENDS Naturals, Sequences, FiniteSets, TLC

\* ------------------------------------------------------------------ bounds

\* Longest text enumerated as input of the sanitizers.
MaxLen == 3
\* Longest list of removal patterns / substitution rules enumerated.
MaxRules == 2

\* ----------------------------------------------------------------- strings

Alphabet == {"a", "b", " ", "\n"}

\* str.isspace() characters (the ASCII ones): what rstrip() strips, what \s
\* matches and \S does not.
Whitespace == {" ", "\t", "\n", "\r", "\f"}

Char(s, i) == SubSeq(s, i, i)

RECURSIVE TextsUpTo(_)
TextsUpTo(n) ==
    IF n = 0 THEN {""}
    ELSE LET shorter == TextsUpTo(n - 1)
         IN  shorter \cup {t \o c : t \in {u \in shorter : Len(u) = n - 1}, c \in Alphabet}

\* Index of the first "\n" of s at or after position i, 0 when there is none.
RECURSIVE NextNewline(_, _)
NextNewline(s, i) ==
    IF i > Len(s) THEN 0
    ELSE IF Char(s, i) = "\n" THEN i
    ELSE NextNewline(s, i + 1)

\* str.split("\n"): the pieces between line breaks, n+1 pieces for n breaks.
RECURSIVE Split(_)
SplitAt(s, n) ==
    IF n = 0 THEN <<s>>
    ELSE <<SubSeq(s, 1, n - 1)>> \o Split(SubSeq(s, n + 1, Len(s)))

Split(s) == SplitAt(s, NextNewline(s, 1))

\* str.rstrip(): the text without its trailing whitespace.
RECURSIVE RStrip(_)
RStrip(s) ==
    IF Len(s) > 0 /\ Char(s, Len(s)) \in Whitespace
    THEN RStrip(SubSeq(s, 1, Len(s) - 1))
    ELSE s

\* Whether old occurs in s starting at position i.
OccursAt(s, old, i) ==
    /\ i + Len(old) - 1 <= Len(s)
    /\ SubSeq(s, i, i + Len(old) - 1) = old

\* The `in` operator on strings.
Contains(s, sub) == \E i \in 1..(Len(s) + 1) : OccursAt(s, sub, i)

\* str.replace(old, new): every non-overlapping occurrence of old, from the
\* left; an empty old is found before every character and at the end.
RECURSIVE ReplaceFrom(_, _, _, _)
ReplaceFrom(s, old, new, i) ==
    IF i > Len(s) THEN (IF old = "" THEN new ELSE "")
    ELSE IF old = "" THEN new \o Char(s, i) \o ReplaceFrom(s, old, new, i + 1)
    ELSE IF OccursAt(s, old, i) THEN new \o ReplaceFrom(s, old, new, i + Len(old))
    ELSE Char(s, i) \o ReplaceFrom(s, old, new, i + 1)

StrReplace(s, old, new) == ReplaceFrom(s, old, new, 1)

\* ------------------------------------------------------- regular expressions

\* Tokens of a parsed pattern.  k: the kind; c: the character of a literal;
\* q: the quantifier ("1" exactly one, "*" zero or more, "+" one or more).
Lit(c) == [k |-> "lit", c |-> c, q |-> "1"]
Dot(q) == [k |-> "dot", c |-> "", q |-> q]
NonSpace(q) == [k |-> "S", c |-> "", q |-> q]
Bol == [k |-> "bol", c |-> "", q |-> "1"]
Eol == [k |-> "eol", c |-> "", q |-> "1"]
Open == [k |-> "open", c |-> "", q |-> "1"]
Close == [k |-> "close", c |-> "", q |-> "1"]

\* The tokens of a literal string.
Lits(s) == [i \in 1..Len(s) |-> Lit(Char(s, i))]

NoMatch == [found |-> FALSE, e |-> 0, ngroups |-> 0, gb |-> 0, ge |-> 0]

\* Whether token t accepts character ch.
Accepts(t, ch) ==
    CASE t.k = "lit" -> ch = t.c
      [] t.k = "dot" -> ch # "\n"
      [] t.k = "S" -> ch \notin Whitespace
      [] OTHER -> FALSE

\* The number of characters from pos on that token t accepts.
RECURSIVE RunLen(_, _, _)
RunLen(t, s, pos) ==
    IF pos <= Len(s) /\ Accepts(t, Char(s, pos)) THEN 1 + RunLen(t, s, pos + 1) ELSE 0

\* ^ : at the start of the text; with re.MULTILINE also after each line break.
AtBol(s, pos, multiline) ==
    \/ pos = 1
    \/ multiline /\ Char(s, pos - 1) = "\n"

\* $ : at the end of the text or before a line break that ends it; with
\* re.MULTILINE before every line break.
AtEol(s, pos, multiline) ==
    \/ pos = Len(s) + 1
    \/ pos = Len(s) /\ Char(s, pos) = "\n"
    \/ multiline /\ pos <= Len(s) /\ Char(s, pos) = "\n"

\* The backtracking matcher.  c is the context [re, s, multiline, start,
\* must_advance]; i the token to match next; pos the next character; m the
\* match so far (number of groups opened, span of group 1).  The result is
\* the first match the engine finds, or NoMatch.
RECURSIVE MatchFrom(_, _, _, _)
RECURSIVE MatchGreedy(_, _, _, _, _, _)
MatchFrom(c, i, pos, m) ==
    IF i > Len(c.re)
    THEN IF c.must_advance /\ pos = c.start THEN NoMatch
         ELSE [m EXCEPT !.found = TRUE, !.e = pos]
    ELSE LET t == c.re[i] IN
         CASE t.k = "bol" ->
                IF AtBol(c.s, pos, c.multiline) THEN MatchFrom(c, i + 1, pos, m) ELSE NoMatch
           [] t.k = "eol" ->
                IF AtEol(c.s, pos, c.multiline) THEN MatchFrom(c, i + 1, pos, m) ELSE NoMatch
           [] t.k = "open" ->
                MatchFrom(c, i + 1, pos,
                          IF m.ngroups = 0 THEN [m EXCEPT !.ngroups = 1, !.gb = pos]
                          ELSE [m EXCEPT !.ngroups = @ + 1])
           [] t.k = "close" ->
                MatchFrom(c, i + 1, pos,
                          IF m.ngroups = 1 THEN [m EXCEPT !.ge = pos] ELSE m)
           [] OTHER ->
                IF t.q = "1"
                THEN IF pos <= Len(c.s) /\ Accepts(t, Char(c.s, pos))
                     THEN MatchFrom(c, i + 1, pos + 1, m)
                     ELSE NoMatch
                ELSE MatchGreedy(c, i, pos, m, RunLen(t, c.s, pos),
                                 IF t.q = "+" THEN 1 ELSE 0)

\* A greedy repetition of n characters led to r: keep it if it matched,
\* else back off by one character.
Backtrack(r, c, i, pos, m, n, least) ==
    IF r.found THEN r
    ELSE IF n = 0 THEN NoMatch
    ELSE MatchGreedy(c, i, pos, m, n - 1, least)

\* A greedy repetition: the longest run first, then one character less.
MatchGreedy(c, i, pos, m, n, least) ==
    IF n < least THEN NoMatch
    ELSE Backtrack(MatchFrom(c, i + 1, pos + n, m), c, i, pos, m, n, least)

MatchAt(re, s, pos, multiline, must_advance) ==
    MatchFrom([re |-> re, s |-> s, multiline |-> multiline, start |-> pos,
               must_advance |-> must_advance],
              1, pos, [NoMatch EXCEPT !.found = TRUE])

\* re.match(pattern, string): a match that starts at the first character.
ReMatch(re, s) == MatchAt(re, s, 1, FALSE, FALSE)

\* re.sub(pattern, "", string, flags=re.MULTILINE): the text without the
\* leftmost non-overlapping matches.  After an empty match the next search
\* starts at the same place and must advance.
RECURSIVE ReSubEmpty(_, _, _, _)
\* r: what the search at pos found.
DropMatch(re, s, pos, r) ==
    IF r.found
    THEN ReSubEmpty(re, s, r.e, r.e = pos)
    ELSE Char(s, pos) \o ReSubEmpty(re, s, pos + 1, FALSE)

ReSubEmpty(re, s, pos, must_advance) ==
    IF pos > Len(s) THEN ""
    ELSE DropMatch(re, s, pos, MatchAt(re, s, pos, TRUE, must_advance))

\* ----------------------------------------------------------------- sanitizers

\* What a Python call produced: a value, or the exception it raised.
Ok(v) == [exc |-> "none", v |-> v]
Raised(e) == [exc |-> e, v |-> ""]

\* The text from the line that starts at position start on, without the lines
\* in which one of the patterns has a match; a line goes with its line break.
RECURSIVE KeepUnmatchedFrom(_, _, _)
DropLineIfMatched(text, patterns, start, n) ==
    (IF \E k \in 1..Len(patterns), pos \in start..(IF n = 0 THEN Len(text) + 1 ELSE n) :
            MatchAt(patterns[k], text, pos, TRUE, FALSE).found
     THEN ""
     ELSE SubSeq(text, start, IF n = 0 THEN Len(text) ELSE n))
    \o (IF n = 0 THEN "" ELSE KeepUnmatchedFrom(text, patterns, n + 1))

KeepUnmatchedFrom(text, patterns, start) ==
    DropLineIfMatched(text, patterns, start, NextNewline(text, start))

\* Removal of whole lines: every line a pattern matches goes, line break
\* included.
WholeLinesRemoved(config, remove_lines) == KeepUnmatchedFrom(config, remove_lines, 1)

\* _remove_lines(config, remove_lines): each pattern in turn rewrites the
\* result of the previous one, deleting what it matches.
RECURSIVE RemoveLines(_, _)
RemoveLines(config, remove_lines) ==
    IF remove_lines = <<>> THEN config
    ELSE RemoveLines(ReSubEmpty(Head(remove_lines), config, 1, FALSE), Tail(remove_lines))

\* The whole line replaced, not only the group.
ReplaceLine(line, m, item) ==
    IF m.ngroups = 0 THEN Raised("IndexError") ELSE Ok(item.regex_replacement)

\* The body of `if re.match(...)`: the text of the first group, replaced
\* everywhere in the line.  m is the match; groups()[0] of a pattern without
\* groups raises IndexError.
ReplaceGroup(line, m, item) ==
    IF m.ngroups = 0 THEN Raised("IndexError")
    ELSE Ok(StrReplace(line, SubSeq(line, m.gb, m.ge - 1), item.regex_replacement))

\* Two results in sequence: the first exception wins, else the texts joined.
Then(first, rest) ==
    IF first.exc # "none" THEN first
    ELSE IF rest.exc # "none" THEN rest
    ELSE Ok(first.v \o rest.v)

\* Lines 253-256: the rule applied to the line if it matches (m) at its start.
ApplyRule(line, item, m) ==
    IF m.found THEN ReplaceGroup(line, m, item) ELSE Ok(line)

\* The inner loop over substitute_lines for one line, from rule k on: the
\* text it appends to new_config.  The append (line 258) is inside the loop,
\* once per rule.
RECURSIVE SubstituteLine(_, _, _)
\* replaced: the line after rule k.
AppendLine(replaced, substitute_lines, k) ==
    IF replaced.exc # "none" THEN replaced
    ELSE Then(Ok(RStrip(replaced.v) \o "\n"),
              SubstituteLine(replaced.v, substitute_lines, k + 1))

SubstituteLine(line, substitute_lines, k) ==
    IF k > Len(substitute_lines) THEN Ok("")
    ELSE AppendLine(ApplyRule(line, substitute_lines[k],
                              ReMatch(substitute_lines[k].regex_search, line)),
                    substitute_lines, k)

\* The outer loop over config.split("\n"), from line j on.
RECURSIVE SubstituteFrom(_, _, _)
SubstituteFrom(lines, substitute_lines, j) ==
    IF j > Len(lines) THEN Ok("")
    ELSE Then(SubstituteLine(lines[j], substitute_lines, 1),
              SubstituteFrom(lines, substitute_lines, j + 1))

\* _substitute_lines(config, substitute_lines).
SubstituteLines(config, substitute_lines) ==
    IF substitute_lines # <<>>
    THEN SubstituteFrom(Split(config), substitute_lines, 1)
    ELSE Ok(config)

\* -------------------------------------------------------------------- state

VARIABLES
    san_call,   \* the sanitizer call under way: [fn, config, rules]
    san_ret,    \* what it returned or raised; Pending before it ran
    op,         \* the driver task that ran last, "none" before the first
    args,       \* its arguments and what its collaborators answered
    outcome,    \* what the caller got: a result returned or an exception raised
    logged,     \* the log_failure messages of that execution, in order
    calls,      \* the collaborator calls of that execution, in order
    files       \* the file system: the content of each path, Absent if none

vars == <<san_call, san_ret, op, args, outcome, logged, calls, files>>

driver_vars == <<op, args, outcome, logged, calls, files>>

Pending == [exc |-> "pending", v |-> ""]

\* ------------------------------------------------------ sanitizer inputs

\* Removal patterns: a, ^a.*$, ^a.*\n, b$
RemovalA == Lits("a")
RemovalLineA == <<Bol, Lit("a"), Dot("*"), Eol>>
RemovalLineANewline == <<Bol, Lit("a"), Dot("*"), Lit("\n")>>
RemovalEndB == <<Lit("b"), Eol>>

RemovalPatterns == {RemovalA, RemovalLineA, RemovalLineANewline, RemovalEndB}

\* Substitution rules, as the dictionaries of substitute_lines.
\* ^user (\S+)$ -> REDACTED
RuleUser ==
    [regex_search |-> <<Bol>> \o Lits("user ") \o <<Open, NonSpace("+"), Close, Eol>>,
     regex_replacement |-> "REDACTED"]
\* ^a (\S+)$ -> X
RuleA ==
    [regex_search |-> <<Bol>> \o Lits("a ") \o <<Open, NonSpace("+"), Close, Eol>>,
     regex_replacement |-> "X"]
\* (b) -> "Y " : the replacement ends with a space
RuleB ==
    [regex_search |-> <<Open, Lit("b") , Close>>, regex_replacement |-> "Y "]
\* a(\S*)$ -> Z : the group may match the empty text
RuleEmptyGroup ==
    [regex_search |-> <<Lit("a"), Open, NonSpace("*"), Close, Eol>>,
     regex_replacement |-> "Z"]
\* ^a -> X : no capturing group
RuleNoGroup ==
    [regex_search |-> <<Bol, Lit("a")>>, regex_replacement |-> "X"]

SubstitutionRules == {RuleUser, RuleA, RuleB, RuleEmptyGroup, RuleNoGroup}

\* Ten lines, two of which (the first and the fourth) contain an a.
TenLines == "a\nb\nb\na b\nb\nb\nb\nb\nb\nb"

SampleTexts == {"user alice", "user alice  \nb", TenLines}

Texts == TextsUpTo(MaxLen) \cup SampleTexts

ListsUpTo(S, n) == UNION {[1..k -> S] : k \in 0..n}

SanitizerCalls ==
    {[fn |-> "_remove_lines", config |-> t, rules |-> r] :
        t \in Texts, r \in ListsUpTo(RemovalPatterns, MaxRules)}
    \cup
    {[fn |-> "_substitute_lines", config |-> t, rules |-> r] :
        t \in Texts, r \in ListsUpTo(SubstitutionRules, MaxRules)}

NoCall == [fn |-> "none", config |-> "", rules |-> <<>>]
NoArgs == [none |-> TRUE]
NoOutcome == [kind |-> "none"]
Absent == [exists |-> FALSE, text |-> ""]
File(t) == [exists |-> TRUE, text |-> t]
Paths == {"backup_file", "intended_file"}

DriverIdle ==
    /\ op = "none"
    /\ args = NoArgs
    /\ outcome = NoOutcome
    /\ logged = <<>>
    /\ calls = <<>>
    /\ files = [p \in Paths |-> Absent]

\* ------------------------------------------------- the sanitizers, called

InitSanitize ==
    /\ san_call \in SanitizerCalls
    /\ san_ret = Pending
    /\ DriverIdle

CallRemoveLines ==
    /\ san_call.fn = "_remove_lines"
    /\ san_ret = Pending
    /\ san_ret' = Ok(RemoveLines(san_call.config, san_call.rules))
    /\ UNCHANGED <<san_call, driver_vars>>

CallSubstituteLines ==
    /\ san_call.fn = "_substitute_lines"
    /\ san_ret = Pending
    /\ san_ret' = SubstituteLines(san_call.config, san_call.rules)
    /\ UNCHANGED <<san_call, driver_vars>>

NextSanitize == CallRemoveLines \/ CallSubstituteLines

SpecSanitize == InitSanitize /\ [][NextSanitize]_vars

\* ------------------------------------------------------- the driver's world

\* A Python value that is a string or None.
PyNone == [none |-> TRUE, text |-> ""]
PyStr(t) == [none |-> FALSE, text |-> t]

\* What the caller of a task observes.
Return(failed, payload, text) ==
    [kind |-> "return", exc |-> "", failed |-> failed, payload |-> payload, text |-> text]
Raise(exc) ==
    [kind |-> "raise", exc |-> exc, failed |-> TRUE, payload |-> "none", text |-> ""]

\* One logger.log_failure(obj, message): the message's fixed text and the
\* value interpolated into it.
Msg(text, detail) == [msg |-> text, detail |-> detail]

\* One collaborator call (or host attribute read) and whether it answered
\* normally/truthy (TRUE) or raised/answered False (FALSE).
Call(f, ok) == [f |-> f, ok |-> ok]

\* The marker a Cisco device echoes for a command it rejects.
InvalidInputMarker == "ERROR: % Invalid input detected at"

\* What the transport can hand back as device output.
ConfigTexts == {"user alice\na", "b\n" \o InvalidInputMarker \o " line 1"}

\* The kinds of exception a transport sub-task fails with.
FailureKinds == {"authentication", "timeout", "other"}

\* What task.run(...) of a transport sub-task does: raises NornirSubTaskError
\* (cause: the exception inside exc.result), returns a result marked failed
\* (tested at lines 55 and 193; its payload is never read), or returns the
\* value.
TransportAnswers(values) ==
    {[kind |-> "raise", cause |-> k, value |-> PyNone] : k \in FailureKinds}
    \cup {[kind |-> "failed", cause |-> k, value |-> PyNone] : k \in FailureKinds}
    \cup {[kind |-> "ok", cause |-> "", value |-> v] : v \in values}

\* napalm_get: result["config"]["running"], None when the getter's answer
\* holds no running configuration.
NapalmAnswers == TransportAnswers({PyStr(t) : t \in ConfigTexts} \cup {PyNone})

\* netmiko_send_command: the command's output.
NetmikoAnswers == TransportAnswers({PyStr(t) : t \in ConfigTexts})

DriverRemoveLists == {<<>>, <<RemovalA>>}
DriverSubstituteLists == {<<>>, <<RuleUser>>, <<RuleNoGroup>>}

\* How the storage collaborator behaves when it is reached.
StorageModes == {"ok", "make_folder_raises", "open_raises"}

\* What the collaborators of get_config answer: the transport, and the
\* storage if the task gets as far as calling it.
WithStorage(answers) ==
    {[transport |-> t, storage |-> "not_called"] : t \in {a \in answers : a.kind # "ok"}}
    \cup {[transport |-> t, storage |-> st] :
            t \in {a \in answers : a.kind = "ok"}, st \in StorageModes}

\* Lines 60-62 and 203-205: removal, only for a non-empty list.  re.sub on
\* None raises TypeError.
RemoveStep(value, remove_lines) ==
    IF remove_lines = <<>> THEN Ok(value)
    ELSE IF value.none THEN Raised("TypeError")
    ELSE Ok(PyStr(RemoveLines(value.text, remove_lines)))

\* The text of a sanitizer's result as a Python value.
AsValue(s) == IF s.exc # "none" THEN s ELSE Ok(PyStr(s.v))

\* Lines 64-66 and 206-208: substitution, only for a non-empty list.
\* None.split raises AttributeError.
SubstituteStep(removed, substitute_lines) ==
    IF removed.exc # "none" \/ substitute_lines = <<>> THEN removed
    ELSE IF removed.v.none THEN Raised("AttributeError")
    ELSE AsValue(SubstituteLines(removed.v.text, substitute_lines))

\* Lines 60-66 and 203-208: removal, then substitution.
Sanitize(value, remove_lines, substitute_lines) ==
    SubstituteStep(RemoveStep(value, remove_lines), substitute_lines)

\* Lines 68-72 and 210-214: make_folder, open(backup_file, "w") (which
\* truncates), write, return.  old: the file before.
Persist(old, value, storage) ==
    IF storage = "make_folder_raises"
    THEN [calls |-> <<Call("make_folder", FALSE)>>, file |-> old, outcome |-> Raise("OSError")]
    ELSE IF storage = "open_raises"
    THEN [calls |-> <<Call("make_folder", TRUE), Call("open", FALSE)>>,
          file |-> old, outcome |-> Raise("OSError")]
    ELSE IF value.none
    THEN [calls |-> <<Call("make_folder", TRUE), Call("open", TRUE), Call("write", FALSE)>>,
          file |-> File(""), outcome |-> Raise("TypeError")]
    ELSE [calls |-> <<Call("make_folder", TRUE), Call("open", TRUE), Call("write", TRUE)>>,
          file |-> File(value.text), outcome |-> Return(FALSE, "config", value.text)]

\* s: the sanitized configuration, or the exception sanitizing raised.
PersistSanitized(old, s, storage) ==
    IF s.exc # "none"
    THEN [calls |-> <<>>, file |-> old, outcome |-> Raise(s.exc)]
    ELSE Persist(old, s.v, storage)

\* Lines 59-72 and 203-214: after a good transport answer.  run: the calls
\* made so far.
SanitizeAndPersist(run, old, value, remove_lines, substitute_lines, storage) ==
    [logged |-> <<>>] @@
    [PersistSanitized(old, Sanitize(value, remove_lines, substitute_lines), storage)
        EXCEPT !.calls = run \o @]

\* A task that fails before it touches the storage.
FailEarly(run, old, messages, out) ==
    [calls |-> run, file |-> old, logged |-> messages, outcome |-> out]

\* NautobotNornirDriver.get_config.  e: the collaborators' answers.
NapalmGetConfigRun(old, e, remove_lines, substitute_lines) ==
    IF e.transport.kind = "raise"
    THEN FailEarly(<<Call("napalm_get", FALSE)>>, old,
                   <<Msg("Failed with a unknown issue.", e.transport.cause)>>,
                   Raise("NornirNautobotException"))
    ELSE IF e.transport.kind = "failed"
    THEN FailEarly(<<Call("napalm_get", FALSE)>>, old,
                   <<Msg("Failed with a unknown issue.", e.transport.cause)>>,
                   Return(TRUE, "transport_result", ""))
    ELSE SanitizeAndPersist(<<Call("napalm_get", TRUE)>>, old, e.transport.value,
                            remove_lines, substitute_lines, e.storage)

\* Lines 181-191: the message for a sub-task error, by the class of its cause.
NetmikoFailureMessage(cause) ==
    IF cause = "authentication" THEN Msg("Failed with an authentication issue:", cause)
    ELSE IF cause = "timeout" THEN Msg("Failed with a timeout issue.", cause)
    ELSE Msg("Failed with an unknown issue.", cause)

\* The marker looked for at the start of the output only.
HasInvalidInputAtStart(running_config) == OccursAt(running_config, InvalidInputMarker, 1)

\* Line 199: whether the output holds the marker.
HasInvalidInput(running_config) == Contains(running_config, InvalidInputMarker)

\* NetmikoNautobotNornirDriver.get_config.  e: the collaborators' answers.
NetmikoGetConfigRun(old, e, remove_lines, substitute_lines) ==
    IF e.transport.kind = "raise"
    THEN FailEarly(<<Call("netmiko_send_command", FALSE)>>, old,
                   <<NetmikoFailureMessage(e.transport.cause)>>,
                   Raise("NornirNautobotException"))
    ELSE IF e.transport.kind = "failed"
    THEN FailEarly(<<Call("netmiko_send_command", FALSE)>>, old, <<>>,
                   Return(TRUE, "transport_result", ""))
    ELSE IF HasInvalidInput(e.transport.value.text)
    THEN FailEarly(<<Call("netmiko_send_command", TRUE)>>, old,
                   <<Msg("Discovered the invalid input marker in the output", "")>>,
                   Raise("NornirNautobotException"))
    ELSE SanitizeAndPersist(<<Call("netmiko_send_command", TRUE)>>, old, e.transport.value,
                            remove_lines, substitute_lines, e.storage)

\* An exception raised with a message.
RaiseMsg(exc, text) == [Raise(exc) EXCEPT !.text = text]

\* The TCP port probed (line 86).
port == 22

\* What check_connectivity finds: whether the hostname is a literal address,
\* whether it resolves, whether the later socket.gethostbyname answers,
\* whether the port is open, and the host's credentials.
Hosts ==
    [is_ip : BOOLEAN, resolves : BOOLEAN, lookup_ok : BOOLEAN, port_open : BOOLEAN,
     username : {"", "admin"}, password : {"", "secret"}]

\* The password tested before the username.
CheckPasswordFirst(h, probe) ==
    IF h.password = ""
    THEN [calls |-> probe \o <<Call("password", FALSE)>>,
          logged |-> <<Msg("There was no password defined, preemptively failed.", "")>>,
          outcome |-> RaiseMsg("NornirNautobotException",
                               "There was no password defined, preemptively failed.")]
    ELSE IF h.username = ""
    THEN [calls |-> probe \o <<Call("password", TRUE), Call("username", FALSE)>>,
          logged |-> <<Msg("There was no username defined, preemptively failed.", "")>>,
          outcome |-> RaiseMsg("NornirNautobotException",
                               "There was no username defined, preemptively failed.")]
    ELSE [calls |-> probe \o <<Call("password", TRUE), Call("username", TRUE)>>,
          logged |-> <<>>, outcome |-> Return(FALSE, "none", "")]

\* Lines 90-97: the username, then the password, then success.  probe: the
\* calls made so far.
CheckCredentials(h, probe) ==
    IF h.username = ""
    THEN [calls |-> probe \o <<Call("username", FALSE)>>,
          logged |-> <<Msg("There was no username defined, preemptively failed.", "")>>,
          outcome |-> RaiseMsg("NornirNautobotException",
                               "There was no username defined, preemptively failed.")]
    ELSE IF h.password = ""
    THEN [calls |-> probe \o <<Call("username", TRUE), Call("password", FALSE)>>,
          logged |-> <<Msg("There was no password defined, preemptively failed.", "")>>,
          outcome |-> RaiseMsg("NornirNautobotException",
                               "There was no password defined, preemptively failed.")]
    ELSE [calls |-> probe \o <<Call("username", TRUE), Call("password", TRUE)>>,
          logged |-> <<>>, outcome |-> Return(FALSE, "none", "")]

\* Lines 77-83: the address: a literal, or a name that resolves and is then
\* looked up.
AddressCalls(h) ==
    IF h.is_ip THEN <<Call("is_ip", TRUE)>>
    ELSE IF ~h.resolves
    THEN <<Call("is_ip", FALSE), Call("hostname_resolves", FALSE)>>
    ELSE <<Call("is_ip", FALSE), Call("hostname_resolves", TRUE),
           Call("gethostbyname", h.lookup_ok)>>

\* NautobotNornirDriver.check_connectivity.
CheckConnectivityRun(h) ==
    IF ~h.is_ip /\ ~h.resolves
    THEN [calls |-> AddressCalls(h), logged |-> <<Msg("not an IP or resolvable.", "")>>,
          outcome |-> RaiseMsg("NornirNautobotException", "not an IP or resolvable.")]
    ELSE IF ~h.is_ip /\ ~h.lookup_ok
    THEN [calls |-> AddressCalls(h), logged |-> <<>>, outcome |-> Raise("gaierror")]
    ELSE IF ~h.port_open
    THEN [calls |-> AddressCalls(h) \o <<Call("test_tcp_port", FALSE)>>,
          logged |-> <<Msg("Attempting to connect to IP: and port: failed.", port)>>,
          outcome |-> RaiseMsg("NornirNautobotException",
                               "Attempting to connect to IP: and port: failed.")]
    ELSE CheckCredentials(h, AddressCalls(h) \o <<Call("test_tcp_port", TRUE)>>)

\* The comparison called without looking for the intended file first.
ComplianceWithoutIntendedCheck(fs, answer) ==
    IF ~fs["backup_file"].exists
    THEN [calls |-> <<Call("exists", FALSE)>>,
          logged |-> <<Msg("Backup file Not Found at location:", "backup_file")>>,
          outcome |-> Raise("NornirNautobotException")]
    ELSE IF answer = "raises"
    THEN [calls |-> <<Call("exists", TRUE), Call("compliance", FALSE)>>,
          logged |-> <<Msg("UNKNOWN Failure of:", "error")>>,
          outcome |-> Raise("NornirNautobotException")]
    ELSE [calls |-> <<Call("exists", TRUE), Call("compliance", TRUE)>>,
          logged |-> <<>>,
          outcome |-> Return(FALSE, "feature_data", "")]

\* What the comparison collaborator does when called.
ComplianceAnswers == {"ok", "raises"}

\* NautobotNornirDriver.compliance_config.  fs: the file system.
ComplianceConfigRun(fs, answer) ==
    IF ~fs["backup_file"].exists
    THEN [calls |-> <<Call("exists", FALSE)>>,
          logged |-> <<Msg("Backup file Not Found at location:", "backup_file")>>,
          outcome |-> Raise("NornirNautobotException")]
    ELSE IF ~fs["intended_file"].exists
    THEN [calls |-> <<Call("exists", TRUE), Call("exists", FALSE)>>,
          logged |-> <<Msg("Intended config file NOT Found at location:", "intended_file")>>,
          outcome |-> Raise("NornirNautobotException")]
    ELSE IF answer = "raises"
    THEN [calls |-> <<Call("exists", TRUE), Call("exists", TRUE), Call("compliance", FALSE)>>,
          logged |-> <<Msg("UNKNOWN Failure of:", "error")>>,
          outcome |-> Raise("NornirNautobotException")]
    ELSE [calls |-> <<Call("exists", TRUE), Call("exists", TRUE), Call("compliance", TRUE)>>,
          logged |-> <<>>,
          outcome |-> Return(FALSE, "feature_data", "")]

\* The classes of the exception inside a failed template_file sub-task, and
\* jinja2's class hierarchy among them.
TemplateFailures ==
    {"UndefinedError", "TemplateSyntaxError", "TemplateNotFound", "TemplateError", "Exception"}

IsInstance(cause, class) ==
    \/ cause = class
    \/ class = "TemplateError"
       /\ cause \in {"UndefinedError", "TemplateSyntaxError", "TemplateNotFound"}

RenderedTexts == {"a\nb"}

\* task.run(template_file): raises NornirSubTaskError or returns the text.
TemplateAnswers ==
    {[kind |-> "raise", cause |-> k, text |-> ""] : k \in TemplateFailures}
    \cup {[kind |-> "ok", cause |-> "", text |-> t] : t \in RenderedTexts}

\* Lines 156-159: make_folder, open, write, return.
PersistRendered(run, old, text, storage) ==
    IF storage = "make_folder_raises"
    THEN FailEarly(run \o <<Call("make_folder", FALSE)>>, old, <<>>, Raise("OSError"))
    ELSE IF storage = "open_raises"
    THEN FailEarly(run \o <<Call("make_folder", TRUE), Call("open", FALSE)>>, old, <<>>,
                   Raise("OSError"))
    ELSE [calls |-> run \o <<Call("make_folder", TRUE), Call("open", TRUE),
                             Call("write", TRUE)>>,
          file |-> File(text), logged |-> <<>>,
          outcome |-> Return(FALSE, "config", text)]

\* Lines 132-154: the sub-task error, by the class of its cause; the bare
\* raise of line 154 re-raises what was caught.
TemplateFailure(run, old, cause) ==
    IF IsInstance(cause, "UndefinedError")
    THEN FailEarly(run, old,
                   <<Msg("There was a jinja2.exceptions.UndefinedError error:", cause)>>,
                   Raise("NornirNautobotException"))
    ELSE IF IsInstance(cause, "TemplateSyntaxError")
    THEN FailEarly(run, old,
                   <<Msg("There was a jinja2.TemplateSyntaxError error:", cause)>>,
                   Raise("NornirNautobotException"))
    ELSE IF IsInstance(cause, "TemplateNotFound")
    THEN FailEarly(run, old,
                   <<Msg("There was an issue finding the template and a jinja2.TemplateNotFound error was raised:", cause)>>,
                   Raise("NornirNautobotException"))
    ELSE IF IsInstance(cause, "TemplateError")
    THEN FailEarly(run, old,
                   <<Msg("There was an issue general Jinja error:", cause)>>,
                   Raise("NornirNautobotException"))
    ELSE FailEarly(run, old, <<>>, Raise("NornirSubTaskError"))

\* NautobotNornirDriver.generate_config.  old: the output file before; e: the
\* collaborators' answers.
GenerateConfigRun(old, e) ==
    IF e.transport.kind = "raise"
    THEN TemplateFailure(<<Call("template_file", FALSE)>>, old, e.transport.cause)
    ELSE PersistRendered(<<Call("template_file", TRUE)>>, old, e.transport.text, e.storage)

\* ------------------------------------------------------------ the driver

Init ==
    /\ san_call = NoCall
    /\ san_ret = Pending
    /\ DriverIdle

\* One task ran: what the caller and the collaborators saw of it.  r: the
\* run; path: the file it may have written.
Ran(task, a, r, path) ==
    /\ op' = task
    /\ args' = a
    /\ outcome' = r.outcome
    /\ logged' = r.logged
    /\ calls' = r.calls
    /\ files' = [files EXCEPT ![path] = r.file]
    /\ UNCHANGED <<san_call, san_ret>>

\* A task that writes no file ran.
RanReadOnly(task, a, r) ==
    /\ op' = task
    /\ args' = a
    /\ outcome' = r.outcome
    /\ logged' = r.logged
    /\ calls' = r.calls
    /\ UNCHANGED <<files, san_call, san_ret>>

NapalmGetConfig ==
    \E e \in WithStorage(NapalmAnswers), rl \in DriverRemoveLists,
       sl \in DriverSubstituteLists :
        Ran("napalm_get_config",
            [answers |-> e, remove_lines |-> rl, substitute_lines |-> sl],
            NapalmGetConfigRun(files["backup_file"], e, rl, sl), "backup_file")

NetmikoGetConfig ==
    \E e \in WithStorage(NetmikoAnswers), rl \in DriverRemoveLists,
       sl \in DriverSubstituteLists :
        Ran("netmiko_get_config",
            [answers |-> e, remove_lines |-> rl, substitute_lines |-> sl],
            NetmikoGetConfigRun(files["backup_file"], e, rl, sl), "backup_file")

CheckConnectivity ==
    \E h \in Hosts :
        RanReadOnly("check_connectivity", [host |-> h], CheckConnectivityRun(h))

ComplianceConfig ==
    \E answer \in ComplianceAnswers :
        RanReadOnly("compliance_config", [compliance |-> answer],
                    ComplianceConfigRun(files, answer))

GenerateConfig ==
    \E e \in WithStorage(TemplateAnswers) :
        Ran("generate_config", [answers |-> e],
            GenerateConfigRun(files["intended_file"], e), "intended_file")

Next ==
    \/ NapalmGetConfig
    \/ NetmikoGetConfig
    \/ CheckConnectivity
    \/ ComplianceConfig
    \/ GenerateConfig

Spec == Init /\ [][Next]_vars

\* ------------------------------------------------------------------ claims

\* A failure as the caller sees it: an exception, or a result marked failed.
IsFailure(o) == o.kind = "raise" \/ (o.kind = "return" /\ o.failed)

GetConfigTasks == {"napalm_get_config", "netmiko_get_config"}

\* Whether the execution touched the storage (make_folder, open or write).
TouchedStorage(trace) ==
    \E i \in 1..Len(trace) : trace[i].f \in {"make_folder", "open", "write"}

\* C1: every execution of a task that ends in a failure (an exception or a
\* failed result) has called log_failure exactly once.
C1_FailureLoggedOnce ==
    (op # "none" /\ IsFailure(outcome)) => Len(logged) = 1

\* C2: when the output netmiko_send_command returns holds the invalid input
\* marker, the Netmiko get_config raises the driver's exception after
\* logging the marker, and neither creates the directory nor opens or writes
\* the backup file, which stays as it was.
C2_InvalidInputNotWritten ==
    [][(/\ op' = "netmiko_get_config"
        /\ args'.answers.transport.kind = "ok"
        /\ Contains(args'.answers.transport.value.text, InvalidInputMarker))
       => (/\ outcome' = Raise("NornirNautobotException")
           /\ logged' = <<Msg("Discovered the invalid input marker in the output", "")>>
           /\ ~TouchedStorage(calls')
           /\ files' = files)]_vars

\* C2's case: the marker came back while a backup file of an earlier run
\* exists, and the task raised.
C2_Witness ==
    /\ op = "netmiko_get_config"
    /\ args.answers.transport.kind = "ok"
    /\ Contains(args.answers.transport.value.text, InvalidInputMarker)
    /\ outcome.kind = "raise"
    /\ files["backup_file"].exists

\* C3: compliance_config fails, with one logged message, before it calls
\* compliance(...) when the backup file is missing, or when the backup file
\* exists and the intended file is missing.
C3_NoComparisonWithoutFiles ==
    (/\ op = "compliance_config"
     /\ \/ ~files["backup_file"].exists
        \/ files["backup_file"].exists /\ ~files["intended_file"].exists)
    => (/\ outcome = Raise("NornirNautobotException")
        /\ Len(logged) = 1
        /\ \A i \in 1..Len(calls) : calls[i].f # "compliance")

\* C3's case: a backup file written by get_config exists, the intended file
\* does not, and compliance_config raised.
C3_Witness ==
    /\ op = "compliance_config"
    /\ files["backup_file"].exists
    /\ ~files["intended_file"].exists
    /\ outcome.kind = "raise"

\* The order of the checks of check_connectivity, for a literal address and
\* for a hostname.
CheckOrderLiteral == <<"is_ip", "test_tcp_port", "username", "password">>
CheckOrderResolved ==
    <<"is_ip", "hostname_resolves", "gethostbyname", "test_tcp_port", "username", "password">>

CallNames(trace) == [i \in 1..Len(trace) |-> trace[i].f]

IsPrefix(a, b) == Len(a) <= Len(b) /\ a = SubSeq(b, 1, Len(a))

\* A call that stops the task: anything but is_ip answering False.
Stops(c) == ~c.ok /\ c.f # "is_ip"

\* The reason reported for each check that can fail.
ReasonOf(f) ==
    CASE f = "hostname_resolves" -> "not an IP or resolvable."
      [] f = "test_tcp_port" -> "Attempting to connect to IP: and port: failed."
      [] f = "username" -> "There was no username defined, preemptively failed."
      [] f = "password" -> "There was no password defined, preemptively failed."
      [] OTHER -> ""

\* What the host answers to each call.
AnswerOf(h, f) ==
    CASE f = "is_ip" -> h.is_ip
      [] f = "hostname_resolves" -> h.resolves
      [] f = "gethostbyname" -> h.lookup_ok
      [] f = "test_tcp_port" -> h.port_open
      [] f = "username" -> h.username # ""
      [] f = "password" -> h.password # ""
      [] OTHER -> FALSE

\* C4: check_connectivity runs its checks in the order address, port 22,
\* username, password; the first check that fails is the last thing it does
\* and gives the reason that is logged and raised; it returns success (no
\* payload) exactly when the password check, the last one, passed; a literal
\* address with an open port, a username and an empty password fails with a
\* reason that mentions the password, and a name that is neither a literal
\* nor resolvable with "not an IP or resolvable.".
C4_ChecksInOrder ==
    op = "check_connectivity" =>
        LET n == Len(calls)
            h == args.host
        IN  /\ n >= 1
            /\ IsPrefix(CallNames(calls),
                        IF calls[1].ok THEN CheckOrderLiteral ELSE CheckOrderResolved)
            /\ \A i \in 1..n : calls[i].ok = AnswerOf(h, calls[i].f)
            /\ \A i \in 1..(n - 1) : ~Stops(calls[i])
            /\ (Stops(calls[n]) /\ calls[n].f # "gethostbyname")
               => /\ outcome = RaiseMsg("NornirNautobotException", ReasonOf(calls[n].f))
                  /\ Len(logged) = 1
                  /\ logged[1].msg = ReasonOf(calls[n].f)
            /\ (outcome.kind = "return") = (calls[n].f = "password" /\ calls[n].ok)
            /\ outcome.kind = "return" => outcome = Return(FALSE, "none", "")
            /\ (h.is_ip /\ h.port_open /\ h.username # "" /\ h.password = "")
               => /\ outcome.kind = "raise"
                  /\ outcome.exc = "NornirNautobotException"
                  /\ Contains(outcome.text, "password")
            /\ (~h.is_ip /\ ~h.resolves)
               => /\ outcome.kind = "raise"
                  /\ Contains(outcome.text, "not an IP or resolvable.")

\* C4's case: a literal address, an open port, a username, no password, and
\* the task raised.
C4_Witness ==
    /\ op = "check_connectivity"
    /\ args.host.is_ip
    /\ args.host.port_open
    /\ args.host.username # ""
    /\ args.host.password = ""
    /\ outcome.kind = "raise"
    /\ Len(calls) = 4

\* The kind of transport failure a logged message reports.
FailureClass(m) ==
    CASE m.msg = "Failed with an authentication issue:" -> "authentication"
      [] m.msg = "Failed with a timeout issue." -> "timeout"
      [] OTHER -> "other"

\* C5: in both get_config variants a transport failure is reported by its
\* kind: authentication, timeout, or unknown for anything else.
C5_TransportFailureClassified ==
    (op \in GetConfigTasks /\ args.answers.transport.kind = "raise")
    => (/\ Len(logged) = 1
        /\ FailureClass(logged[1]) = args.answers.transport.cause)

\* C6: whatever a collaborator raises, the caller sees no exception but the
\* driver's own NornirNautobotException.
C6_OnlyDriverExceptions ==
    outcome.kind = "raise" => outcome.exc = "NornirNautobotException"

SanitizerRan(fn) == san_call.fn = fn /\ san_ret # Pending

\* Whether a pattern can match a line break.
ConsumesNewline(re) == \E i \in 1..Len(re) : Accepts(re[i], "\n")

\* Whether a is b with some characters deleted.
RECURSIVE IsSubsequenceFrom(_, _, _, _)
IsSubsequenceFrom(a, i, b, j) ==
    IF i > Len(a) THEN TRUE
    ELSE IF j > Len(b) THEN FALSE
    ELSE IF Char(a, i) = Char(b, j) THEN IsSubsequenceFrom(a, i + 1, b, j + 1)
    ELSE IsSubsequenceFrom(a, i, b, j + 1)

IsSubsequence(a, b) == IsSubsequenceFrom(a, 1, b, 1)

LinewiseSubsequence(out, in) ==
    /\ Len(out) = Len(in)
    /\ \A i \in 1..Len(in) : IsSubsequence(out[i], in[i])

RECURSIVE AllRulesApplied(_, _, _)
AllRulesApplied(line, rules, k) ==
    IF k > Len(rules) THEN line
    ELSE AllRulesApplied(ApplyRule(line, rules[k], ReMatch(rules[k].regex_search, line)).v,
                         rules, k + 1)

\* Each line once, after all the rules, right-trimmed and newline-terminated.
RECURSIVE OncePerLine(_, _, _)
OncePerLine(lines, rules, j) ==
    IF j > Len(lines) THEN ""
    ELSE RStrip(AllRulesApplied(lines[j], rules, 1)) \o "\n" \o OncePerLine(lines, rules, j + 1)

\* C8: for a non-empty list of rules of any length, _substitute_lines emits
\* each input line exactly once, in order, after all the rules were applied
\* to it, right-trimmed and newline-terminated.
C8_EachLineOnce ==
    (SanitizerRan("_substitute_lines") /\ san_call.rules # <<>> /\ san_ret.exc = "none")
    => san_ret.v = OncePerLine(Split(san_call.config), san_call.rules, 1)

GroupCount(re) == Cardinality({i \in 1..Len(re) : re[i].k = "open"})

\* Whether a rule without a capturing group matches a line of the text.
GrouplessRuleMatches(text, rules) ==
    \E k \in 1..Len(rules), j \in 1..Len(Split(text)) :
        /\ GroupCount(rules[k].regex_search) = 0
        /\ ReMatch(rules[k].regex_search, Split(text)[j]).found

\* C9: when a substitution rule without a capturing group matches a line of
\* the configuration, get_config raises the driver's own exception, not an
\* unclassified runtime error, and writes no backup file.
C9_GrouplessRuleIsDriverError ==
    (/\ op \in GetConfigTasks
     /\ args.answers.transport.kind = "ok"
     /\ ~args.answers.transport.value.none
     /\ op = "netmiko_get_config"
        => ~Contains(args.answers.transport.value.text, InvalidInputMarker)
     /\ GrouplessRuleMatches(RemoveLines(args.answers.transport.value.text,
                                         args.remove_lines),
                             args.substitute_lines))
    => (/\ outcome = Raise("NornirNautobotException")
        /\ ~TouchedStorage(calls))

UserAliceCall ==
    [fn |-> "_substitute_lines", config |-> "user alice", rules |-> <<RuleUser>>]

\* C10 as stated: the rule ^user (\S+)$ -> REDACTED turns the line
\* "user alice" into "REDACTED", newline-terminated.
C10_LineRedacted ==
    (san_call = UserAliceCall /\ san_ret # Pending) => san_ret = Ok("REDACTED\n")

\* C10 as amended: the rule replaces only the text of its group: the line
\* "user alice" becomes "user REDACTED", right-trimmed and
\* newline-terminated.
C10_GroupRedacted ==
    (san_call = UserAliceCall /\ san_ret # Pending) => san_ret = Ok("user REDACTED\n")

\* C10's case: the rule was applied to "user alice".
C10_Witness ==
    /\ san_call = UserAliceCall
    /\ san_ret.exc = "none"

====
